---- MODULE Spec2Model ----
(***************************************************************************)
(* Model of the ORSA document processing pipeline: content fingerprinting, *)
(* the per-institute version registry (VersionManager), the check runner   *)
(* (run_check / get_all_checks), DocumentProcessor and ORSAPipeline, and   *)
(* the result sink (DatabaseManager).                                      *)
(*                                                                         *)
(* Python strings that the code takes apart (file names, descriptions) are *)
(* sequences of tokens; "" is <<>>.  Python dicts are functions whose      *)
(* DOMAIN is the set of keys.                                              *)
(***************************************************************************)
EXTENDS Integers, Sequences, FiniteSets, TLC

\* ------------------------------------------------------------------------
\* Bounds of the model
\* ------------------------------------------------------------------------
NumContents == 3
NumChecks == 2
NumLoadContents == 2
NumDocContents == 1
MaxRecords == 1
MaxLoadVersion == 1
MaxDocs == 3
NumCachedContents == 2
MaxCalls == 2
MaxCallDocs == 1
MaxHandled == 4
MaxGiven == 2
MaxGivenVersion == 2

\* ------------------------------------------------------------------------
\* Input domains
\* ------------------------------------------------------------------------
Institutes == {<<>>, <<"A">>}
\* file contents; content 0 is bytes that are not a workbook
Contents == 1..NumContents
Sha256(content) == <<"sha256", content>>
Hashes == {Sha256(c) : c \in 0..NumContents}

ExcelSuffixes == {".xlsx", ".xlsm", ".xltx", ".xltm"}
SuffixTokens == ExcelSuffixes \cup {".txt"}
Separators == <<"_", "-", " ">>

\* pathlib: the last suffix of a name, "" when there is none
Suffix(name) ==
  IF Len(name) > 1 /\ name[Len(name)] \in SuffixTokens
    THEN name[Len(name)] ELSE ""

\* pathlib: the name without its last suffix
Stem(name) ==
  IF Suffix(name) = "" THEN name ELSE SubSeq(name, 1, Len(name) - 1)

\* ------------------------------------------------------------------------
\* dict helpers
\* ------------------------------------------------------------------------
EmptyDict == <<>>
Put(d, k, v) == [x \in (DOMAIN d) \cup {k} |-> IF x = k THEN v ELSE d[x]]
Del(d, k) == [x \in (DOMAIN d) \ {k} |-> d[x]]
Values(d) == {d[k] : k \in DOMAIN d}
SetMax(S) == CHOOSE m \in S : \A x \in S : x <= m
Range(q) == {q[i] : i \in 1..Len(q)}

\* ------------------------------------------------------------------------
\* State
\* ------------------------------------------------------------------------
VARIABLES
  version_cache,    \* VersionManager._version_cache: institute -> hash -> version
  force_reprocess,  \* DocumentProcessor.force_reprocess
  stored,           \* the sink's table: the (institute, hash, version) of its rows
  processing_stats, \* ORSAPipeline.processing_stats
  batch,            \* the process_documents call in progress and its position
  last_doc,         \* the document of the last process_file / loop iteration and its fate
  ret,              \* what the last operation returned or raised
  write_calls,      \* history: write_results calls per (institute, hash), capped at 2
  offered,          \* history: the documents given to the pipeline call: how many, how many
                    \* with a missing path, how many unseen, valid and written
  handed,           \* history: what the last process_file call handed to write_results,
                    \* whether it opened a workbook, and the calls it made in order
  known,            \* history: the pairs ever given to get_version or load (ever), and
                    \* those given since their institute's mappings were last dropped (since)
  seen_order,       \* history: per institute, fingerprints in order of first get_version
  last_version,     \* history: the version first handed out per pair (0: none yet)
  repeated,         \* history: the last operation was a get_version for a pair last_version already held
  workers,          \* the threads inside get_version: each one's position and locals
  tally             \* history: the documents of each outcome and the checks of processed
                    \* documents, over all process_documents calls of one pipeline

vmHist == <<known, seen_order, last_version, repeated>>
procHist == <<write_calls, offered, handed>>
procVars == <<force_reprocess, stored, processing_stats, batch, last_doc>>
vars == <<version_cache, force_reprocess, stored, processing_stats, batch, last_doc,
          ret, write_calls, offered, handed, known, seen_order, last_version, repeated,
          workers, tally>>

\* ------------------------------------------------------------------------
\* VersionManager
\* ------------------------------------------------------------------------
\* a file on disk: compute_file_hash raises FileNotFoundError when it is absent
MissingFile == [name |-> <<"gone", ".xlsx">>, exists |-> FALSE, content |-> 0]

\* a fingerprint function that treats a missing file as an empty one
compute_file_hash_missing_ok(file) ==
  [raised |-> "", file_hash |-> Sha256(IF file.exists THEN file.content ELSE 0)]

compute_file_hash(file) ==
  IF ~file.exists THEN [raised |-> "FileNotFoundError"]
  ELSE [raised |-> "", file_hash |-> Sha256(file.content)]

is_processed(cache, institute_id, file_hash) ==
  /\ institute_id \in DOMAIN cache
  /\ file_hash \in DOMAIN cache[institute_id]

\* the version number get_version assigns to a fingerprint new for the institute
next_version_from_zero(cache, institute_id) ==
  LET current_versions == IF institute_id \in DOMAIN cache
                            THEN Values(cache[institute_id]) ELSE {}
  IN IF current_versions # {} THEN SetMax(current_versions) + 1 ELSE 0

next_version_global(cache, institute_id) ==
  LET current_versions == UNION {Values(cache[e]) : e \in DOMAIN cache}
  IN IF current_versions # {} THEN SetMax(current_versions) + 1 ELSE 1

next_version(cache, institute_id) ==
  LET current_versions == IF institute_id \in DOMAIN cache
                            THEN Values(cache[institute_id]) ELSE {}
  IN IF current_versions # {} THEN SetMax(current_versions) + 1 ELSE 1

\* get_version on an existing file whose fingerprint is file_hash
get_version_number(cache, institute_id, file_hash) ==
  IF is_processed(cache, institute_id, file_hash)
    THEN cache[institute_id][file_hash]
    ELSE next_version(cache, institute_id)

get_version_cache_reassign(cache, institute_id, file_hash) ==
  LET c1 == IF institute_id \in DOMAIN cache THEN cache
            ELSE Put(cache, institute_id, EmptyDict)
  IN Put(c1, institute_id,
         Put(c1[institute_id], file_hash, next_version(cache, institute_id)))

get_version_cache_forget(cache, institute_id, file_hash) ==
  LET c1 == IF institute_id \in DOMAIN cache THEN cache
            ELSE Put(cache, institute_id, EmptyDict)
  IN IF file_hash \in DOMAIN c1[institute_id] THEN c1
     ELSE Put(c1, institute_id,
              Put(EmptyDict, file_hash, next_version(cache, institute_id)))

get_version_cache(cache, institute_id, file_hash) ==
  LET c1 == IF institute_id \in DOMAIN cache THEN cache
            ELSE Put(cache, institute_id, EmptyDict)
  IN IF file_hash \in DOMAIN c1[institute_id] THEN c1
     ELSE Put(c1, institute_id,
              Put(c1[institute_id], file_hash, next_version(cache, institute_id)))

FileVersion(institute_id, file, file_hash, version_number) ==
  [institute_id |-> institute_id, file_name |-> file.name,
   file_hash |-> file_hash, version_number |-> version_number]

\* a loop that keeps the first version given for a key
RECURSIVE load_records_keep_first(_, _)
load_records_keep_first(cache, existing_data) ==
  IF existing_data = <<>> THEN cache
  ELSE LET record == Head(existing_data)
           c1 == IF record.institute_id \in DOMAIN cache THEN cache
                 ELSE Put(cache, record.institute_id, EmptyDict)
       IN load_records_keep_first(
            IF record.file_hash \in DOMAIN c1[record.institute_id] THEN c1
            ELSE Put(c1, record.institute_id,
                     Put(c1[record.institute_id], record.file_hash, record.version_number)),
            Tail(existing_data))

RECURSIVE load_records(_, _)
load_records(cache, existing_data) ==
  IF existing_data = <<>> THEN cache
  ELSE LET record == Head(existing_data)
           c1 == IF record.institute_id \in DOMAIN cache THEN cache
                 ELSE Put(cache, record.institute_id, EmptyDict)
       IN load_records(
            Put(c1, record.institute_id,
                Put(c1[record.institute_id], record.file_hash, record.version_number)),
            Tail(existing_data))

load_existing_versions_skip_first(existing_data) ==
  load_records(EmptyDict, IF existing_data = <<>> THEN <<>> ELSE Tail(existing_data))

load_existing_versions(existing_data) == load_records(EmptyDict, existing_data)

\* None is the default argument; Python's "if institute_id:" is false for
\* None and for the empty string
None == <<"<None>">>
Truthy(institute_id) == institute_id \notin {None, <<>>}

invalidate_cache_one_only(cache, institute_id) ==
  IF institute_id \in DOMAIN cache THEN Del(cache, institute_id) ELSE cache

invalidate_cache_all(cache, institute_id) == EmptyDict

invalidate_cache(cache, institute_id) ==
  IF Truthy(institute_id)
    THEN IF institute_id \in DOMAIN cache THEN Del(cache, institute_id) ELSE cache
    ELSE EmptyDict

\* get_latest_version: the highest version held for the institute, or None
get_latest_version(cache, institute_id) ==
  IF institute_id \notin DOMAIN cache \/ cache[institute_id] = EmptyDict THEN None
  ELSE SetMax(Values(cache[institute_id]))

\* get_cache_status: a dict with is_cached and file_hash, and version_number when
\* the pair is held
get_cache_status(cache, institute_id, file) ==
  LET h == compute_file_hash(file) IN
  IF h.raised # "" THEN [raised |-> h.raised]
  ELSE LET is_cached == is_processed(cache, institute_id, h.file_hash)
           cache_info == Put(Put(EmptyDict, "is_cached", is_cached),
                             "file_hash", h.file_hash)
       IN [raised |-> "",
           value |-> IF is_cached
                       THEN Put(cache_info, "version_number",
                                cache[institute_id][h.file_hash])
                       ELSE cache_info]

\* sorted(): the institute identifiers in string order
InstituteOrder == << <<>>, <<"A">> >>
RECURSIVE SumOver(_, _)
SumOver(f, S) ==
  IF S = {} THEN 0
  ELSE LET x == CHOOSE y \in S : TRUE IN f[x] + SumOver(f, S \ {x})

get_cache_statistics(cache) ==
  [total_institutes |-> Cardinality(DOMAIN cache),
   total_versions |-> SumOver([e \in DOMAIN cache |-> Cardinality(DOMAIN cache[e])],
                              DOMAIN cache),
   institutes |-> SelectSeq(InstituteOrder, LAMBDA e : e \in DOMAIN cache)]

\* ------------------------------------------------------------------------
\* Check registry and runner (checks/rules.py)
\* ------------------------------------------------------------------------
CheckNames == <<"check_responsible_person", "check_data_recency_geschaeftsplanung",
                "check_data_recency_risikoidentifikation", "check_data_recency_szenarien">>

\* the first NumChecks entries of the registry, in registration order
REGISTERED_CHECKS == [i \in 1..NumChecks |-> CheckNames[i]]
get_all_checks == REGISTERED_CHECKS

\* what calling a check function on a workbook does: it returns a triple or raises
Return(outcome, value, description) ==
  [kind |-> "return", outcome |-> outcome, value |-> value, description |-> description]
Raise(message) == [kind |-> "raise", message |-> message]

\* run_check: the triple (outcome, outcome_str, description); never raises
run_check(check_name, call) ==
  IF call.kind = "return"
    THEN [raised |-> "", outcome |-> call.outcome, value |-> call.value,
          description |-> call.description]
    ELSE [raised |-> "", outcome |-> FALSE, value |-> "zu pruefen",
          description |-> <<"Check failed with error: ">> \o call.message]

CheckResult(institute_id, version_info, check_name, r, processed_at, geschaeft_nr, berichtsjahr) ==
  [institute_id |-> institute_id,
   file_name |-> version_info.file_name,
   file_hash |-> version_info.file_hash,
   version_number |-> version_info.version_number,
   check_name |-> check_name,
   check_description |-> r.description,
   outcome_bool |-> r.outcome,
   outcome_numeric |-> r.value,
   processed_at |-> processed_at,
   geschaeft_nr |-> geschaeft_nr,
   berichtsjahr |-> berichtsjahr]

\* the loop of process_file over all_checks, from index i on
RECURSIVE run_checks_stop(_, _, _, _, _, _, _, _)
run_checks_stop(all_checks, workbook, i, institute_id, version_info, processed_at, extra, results) ==
  IF i > Len(all_checks) \/ workbook[i].kind = "raise" THEN results
  ELSE run_checks_stop(all_checks, workbook, i + 1, institute_id, version_info, processed_at,
         extra,
         Append(results,
                CheckResult(institute_id, version_info, all_checks[i],
                            run_check(all_checks[i], workbook[i]), processed_at,
                            extra.geschaeft_nr, extra.berichtsjahr)))

\* a loop that reads the clock again for every check after the first
RECURSIVE run_checks_own_time(_, _, _, _, _, _, _, _)
run_checks_own_time(all_checks, workbook, i, institute_id, version_info, processed_at, extra, results) ==
  IF i > Len(all_checks) THEN results
  ELSE run_checks_own_time(all_checks, workbook, i + 1, institute_id, version_info,
         "later", extra,
         Append(results,
                CheckResult(institute_id, version_info, all_checks[i],
                            run_check(all_checks[i], workbook[i]), processed_at,
                            extra.geschaeft_nr, extra.berichtsjahr)))

RECURSIVE run_checks(_, _, _, _, _, _, _, _)
run_checks(all_checks, workbook, i, institute_id, version_info, processed_at, extra, results) ==
  IF i > Len(all_checks) THEN results
  ELSE run_checks(all_checks, workbook, i + 1, institute_id, version_info, processed_at,
         extra,
         Append(results,
                CheckResult(institute_id, version_info, all_checks[i],
                            run_check(all_checks[i], workbook[i]), processed_at,
                            extra.geschaeft_nr, extra.berichtsjahr)))

\* ------------------------------------------------------------------------
\* Reader and result sink
\* ------------------------------------------------------------------------
\* ExcelReader.load_file
load_file(file) ==
  IF ~file.exists THEN [raised |-> "FileNotFoundError"]
  ELSE IF Suffix(file.name) \notin ExcelSuffixes THEN [raised |-> "ValueError"]
  ELSE IF file.content = 0 THEN [raised |-> "InvalidFileException"]
  ELSE [raised |-> ""]

Triple(r) ==
  [institute_id |-> r.institute_id, file_hash |-> r.file_hash,
   version_number |-> r.version_number]

\* DatabaseManager.write_results: appends the rows; write_ok is whether the
\* database accepts the insert
write_results(table, results, write_ok) ==
  IF results = <<>> THEN [raised |-> "", table |-> table, count |-> 0]
  ELSE IF ~write_ok THEN [raised |-> "OperationalError", table |-> table, count |-> 0]
  ELSE [raised |-> "", table |-> table \cup {Triple(results[i]) : i \in 1..Len(results)},
        count |-> Len(results)]

RECURSIVE SetToSeq(_)
SetToSeq(S) ==
  IF S = {} THEN <<>>
  ELSE LET x == CHOOSE y \in S : TRUE IN <<x>> \o SetToSeq(S \ {x})

\* DatabaseManager.get_existing_versions: MAX(version) per (institute_id, file_hash)
get_existing_versions(table) ==
  SetToSeq({ [institute_id |-> t.institute_id, file_hash |-> t.file_hash,
              version_number |->
                SetMax({u.version_number : u \in
                         {w \in table : /\ w.institute_id = t.institute_id
                                          /\ w.file_hash = t.file_hash}})]
             : t \in table })

\* ------------------------------------------------------------------------
\* DocumentProcessor
\* ------------------------------------------------------------------------
should_process_file_unforced(force, cache, institute_id, file) ==
  LET h == compute_file_hash(file) IN
  IF h.raised # "" THEN [raised |-> h.raised]
  ELSE IF is_processed(cache, institute_id, h.file_hash)
    THEN [raised |-> "", should_process |-> FALSE,
          reason |-> <<"File hash ", "... already processed">>]
    ELSE [raised |-> "", should_process |-> TRUE, reason |-> <<"New file hash">>]

should_process_file_inverted(force, cache, institute_id, file) ==
  IF force
    THEN [raised |-> "", should_process |-> TRUE,
          reason |-> <<"Force reprocess mode enabled">>]
    ELSE LET h == compute_file_hash(file) IN
         IF h.raised # "" THEN [raised |-> h.raised]
         ELSE IF ~is_processed(cache, institute_id, h.file_hash)
           THEN [raised |-> "", should_process |-> FALSE,
                 reason |-> <<"File hash ", "... already processed">>]
           ELSE [raised |-> "", should_process |-> TRUE, reason |-> <<"New file hash">>]

should_process_file_forced(force, cache, institute_id, file) ==
  [raised |-> "", should_process |-> TRUE, reason |-> <<"Force reprocess mode enabled">>]

should_process_file(force, cache, institute_id, file) ==
  IF force
    THEN [raised |-> "", should_process |-> TRUE,
          reason |-> <<"Force reprocess mode enabled">>]
    ELSE LET h == compute_file_hash(file) IN
         IF h.raised # "" THEN [raised |-> h.raised]
         ELSE IF is_processed(cache, institute_id, h.file_hash)
           THEN [raised |-> "", should_process |-> FALSE,
                 reason |-> <<"File hash ", "... already processed">>]
           ELSE [raised |-> "", should_process |-> TRUE, reason |-> <<"New file hash">>]

NoVersion == [institute_id |-> <<>>, file_name |-> <<>>, file_hash |-> Sha256(0),
              version_number |-> 0]
NoExtra == [geschaeft_nr |-> None, berichtsjahr |-> None]
GivenExtra == [geschaeft_nr |-> <<"G-1">>, berichtsjahr |-> 2026]

\* what datetime.now() returns when process_file reads the clock
Now == "t1"
Later == "t2"

\* the optional arguments of a direct process_file call and the time of the call
ProcessCalls == {[extra |-> NoExtra, now |-> Now], [extra |-> GivenExtra, now |-> Later]}

\* "finally: if workbook: self.reader.close_workbook(workbook)": workbook is None
\* unless load_file returned
finally_close_never(opened, calls) == calls

finally_close(opened, calls) ==
  IF opened THEN Append(calls, "close_workbook") ELSE calls

\* the calls process_file makes, in order: the fingerprint and the version inside
\* get_version, load_file, one run_check per result, write_results, and the
\* finally clause; hash_raised and load_raised are what compute_file_hash and
\* load_file raised
process_file_calls_write_early(hash_raised, load_raised, results) ==
  IF hash_raised # "" THEN <<"compute_file_hash">>
  ELSE finally_close(load_raised = "",
         <<"compute_file_hash", "assign_version", "load_file", "write_results">>)

process_file_calls(hash_raised, load_raised, results) ==
  IF hash_raised # "" THEN <<"compute_file_hash">>
  ELSE IF load_raised # ""
    THEN finally_close(FALSE, <<"compute_file_hash", "assign_version", "load_file">>)
    ELSE finally_close(TRUE,
           <<"compute_file_hash", "assign_version", "load_file">>
             \o [i \in 1..Len(results) |-> "run_check"] \o <<"write_results">>)

\* process_file: the exception it raises ("" when it returns), the registry and
\* the table it leaves, what it returns, and whether write_results was called
process_file(cache, table, institute_id, file, workbook, write_ok, extra, now) ==
  LET h == compute_file_hash(file) IN
  IF h.raised # ""
    THEN [raised |-> h.raised, cache |-> cache, table |-> table,
          version_info |-> NoVersion, results |-> <<>>, write |-> "not called",
          opened |-> FALSE, calls |-> process_file_calls(h.raised, "", <<>>)]
    ELSE
      LET cache1 == get_version_cache(cache, institute_id, h.file_hash)
          version_info == FileVersion(institute_id, file, h.file_hash,
                            get_version_number(cache, institute_id, h.file_hash))
          wb == load_file(file)
      IN IF wb.raised # ""
           THEN [raised |-> wb.raised, cache |-> cache1, table |-> table,
                 version_info |-> version_info, results |-> <<>>, write |-> "not called",
                 opened |-> FALSE, calls |-> process_file_calls("", wb.raised, <<>>)]
           ELSE
             LET results == run_checks(get_all_checks, workbook, 1, institute_id,
                                       version_info, now, extra, <<>>)
                 w == write_results(table, results, write_ok)
             IN [raised |-> w.raised, cache |-> cache1, table |-> w.table,
                 version_info |-> version_info, results |-> results,
                 write |-> IF w.raised = "" THEN "ok" ELSE "failed",
                 opened |-> TRUE, calls |-> process_file_calls("", "", results)]

IndexOf(q, x) == CHOOSE i \in 1..Len(q) : q[i] = x /\ \A j \in 1..(i - 1) : q[j] # x

\* _extract_institute_id: the part of the stem before the first separator found,
\* trying "_", "-", " " in this order
RECURSIVE extract_from(_, _)
extract_from(base_name, k) ==
  IF k > Len(Separators) THEN base_name
  ELSE IF Separators[k] \in Range(base_name)
    THEN SubSeq(base_name, 1, IndexOf(base_name, Separators[k]) - 1)
    ELSE extract_from(base_name, k + 1)

extract_institute_id(file_name) == extract_from(Stem(file_name), 1)

\* ------------------------------------------------------------------------
\* Files on disk offered to the operations
\* ------------------------------------------------------------------------
File(name, content) == [name |-> name, exists |-> TRUE, content |-> content]

\* the VersionManager only looks at a file's existence and bytes
VMFile(content) == File(<<"r", ".xlsx">>, content)
VMFiles == {MissingFile} \cup {VMFile(c) : c \in Contents}

\* the smaller universe of the specification with load and invalidate
LoadContents == 1..NumLoadContents
LoadHashes == {Sha256(c) : c \in LoadContents}
LoadFiles == {MissingFile} \cup {VMFile(c) : c \in LoadContents}
LoadRecords == [institute_id : Institutes, file_hash : LoadHashes,
                version_number : 1..MaxLoadVersion]

RECURSIVE SeqsUpTo(_, _)
SeqsUpTo(S, n) ==
  IF n = 0 THEN {<<>>}
  ELSE LET shorter == SeqsUpTo(S, n - 1)
       IN shorter \cup {Append(q, x) : q \in {r \in shorter : Len(r) = n - 1}, x \in S}

NoHistory == [e \in Institutes |-> [f \in Hashes |-> 0]]
NoKnown == [ever |-> {}, since |-> {}]

\* ------------------------------------------------------------------------
\* Operations of the VersionManager
\* ------------------------------------------------------------------------
NoStats ==
  [files_processed |-> 0, files_skipped |-> 0, files_failed |-> 0,
   checks_run |-> 0, checks_passed |-> 0, checks_failed |-> 0, institutes |-> {}]
Idle == [kind |-> "idle", calls |-> 0]
NoDoc == [outcome |-> "none"]
NoWrites == [e \in Institutes |-> [f \in Hashes |-> 0]]
NotHanded == [called |-> FALSE, results |-> <<>>, opened |-> FALSE, calls |-> <<>>]
NoCount == [processed |-> 0, skipped |-> 0, failed |-> 0]
NoOffer == [len |-> 0, missing |-> 0, fresh |-> 0, before |-> NoCount]

NumWorkers == 2
Workers == 1..NumWorkers
NotCalled == [pc |-> "idle"]
NoWorkers == [w \in Workers |-> NotCalled]

NoTally == [processed |-> 0, skipped |-> 0, failed |-> 0, checks |-> 0, passed |-> 0]

\* the parts of the state a specification does not use
ProcUnused ==
  /\ tally = NoTally
  /\ workers = NoWorkers
  /\ force_reprocess = FALSE
  /\ stored = {}
  /\ processing_stats = NoStats
  /\ batch = Idle
  /\ last_doc = NoDoc
  /\ write_calls = NoWrites
  /\ offered = NoOffer
  /\ handed = NotHanded

VMInit ==
  /\ version_cache = EmptyDict
  /\ ret = [op |-> "init", raised |-> ""]
  /\ known = NoKnown
  /\ seen_order = [e \in Institutes |-> <<>>]
  /\ last_version = NoHistory
  /\ repeated = FALSE
  /\ ProcUnused

GetVersion(institute_id, file) ==
  LET h == compute_file_hash(file) IN
  IF h.raised # ""
    THEN /\ ret' = [op |-> "get_version", raised |-> h.raised]
         /\ UNCHANGED version_cache
    ELSE /\ version_cache' = get_version_cache(version_cache, institute_id, h.file_hash)
         /\ ret' = [op |-> "get_version", raised |-> "",
                    value |-> FileVersion(institute_id, file, h.file_hash,
                       get_version_number(version_cache, institute_id, h.file_hash))]

LoadExistingVersions(existing_data) ==
  /\ version_cache' = load_existing_versions(existing_data)
  /\ ret' = [op |-> "load_existing_versions", raised |-> ""]

InvalidateCache(institute_id) ==
  /\ version_cache' = invalidate_cache(version_cache, institute_id)
  /\ ret' = [op |-> "invalidate_cache", raised |-> "", institute_id |-> institute_id]

\* the last operation was a get_version that returned a FileVersion
Returned(r) == r.op = "get_version" /\ r.raised = ""

\* history: the order in which get_version first saw each fingerprint
ObserveOrder ==
  seen_order' =
    IF Returned(ret') /\ ret'.value.file_hash \notin Range(seen_order[ret'.value.institute_id])
      THEN [seen_order EXCEPT ![ret'.value.institute_id] = Append(@, ret'.value.file_hash)]
      ELSE seen_order

\* history: what get_version first returned for each pair
ObserveVersion ==
  /\ last_version' =
    IF Returned(ret') /\ last_version[ret'.value.institute_id][ret'.value.file_hash] = 0
      THEN [last_version EXCEPT ![ret'.value.institute_id][ret'.value.file_hash] =
              ret'.value.version_number]
      ELSE last_version
  /\ repeated' = (/\ Returned(ret')
                  /\ last_version[ret'.value.institute_id][ret'.value.file_hash] # 0)

\* get_version calls on a VersionManager that starts empty
VMGet ==
  /\ \E e \in Institutes, file \in VMFiles : GetVersion(e, file)
  /\ ObserveOrder
  /\ UNCHANGED <<known, last_version, repeated, procVars, procHist, workers, tally>>

VMNext == VMGet

SpecVM == VMInit /\ [][VMNext]_vars

\* the registry as a list of records with the keys load_existing_versions reads,
\* in some order
registry_records(cache) ==
  SetToSeq(UNION {{[institute_id |-> e, file_hash |-> f,
                     version_number |-> cache[e][f]] : f \in DOMAIN cache[e]} :
                   e \in DOMAIN cache})

\* get_version, load_existing_versions and invalidate_cache in any order
VLGet ==
  /\ \E e \in Institutes, file \in LoadFiles : GetVersion(e, file)
  /\ ObserveVersion
  /\ UNCHANGED <<known, seen_order, procVars, procHist, workers, tally>>

VLLoad ==
  /\ \E data \in SeqsUpTo(LoadRecords, MaxRecords) : LoadExistingVersions(data)
  /\ last_version' = NoHistory
  /\ repeated' = FALSE
  /\ UNCHANGED <<known, seen_order, procVars, procHist, workers, tally>>

VLInvalidate ==
  /\ \E e \in Institutes \cup {None} : InvalidateCache(e)
  /\ last_version' = NoHistory
  /\ repeated' = FALSE
  /\ UNCHANGED <<known, seen_order, procVars, procHist, workers, tally>>

VLNext == VLGet \/ VLLoad \/ VLInvalidate

SpecVMLoad == VMInit /\ [][VLNext]_vars

\* the same three operations, with the history of the pairs the manager was given
PairsOf(existing_data) ==
  {<<existing_data[i].institute_id, existing_data[i].file_hash>> :
     i \in 1..Len(existing_data)}

KNGet ==
  /\ \E e \in Institutes, file \in LoadFiles : GetVersion(e, file)
  /\ known' = IF Returned(ret')
                THEN LET pair == <<ret'.value.institute_id, ret'.value.file_hash>>
                     IN [ever |-> known.ever \cup {pair}, since |-> known.since \cup {pair}]
                ELSE known
  /\ UNCHANGED <<seen_order, last_version, repeated, procVars, procHist, workers, tally>>

\* load_existing_versions starts by clearing the cache
KNLoad ==
  /\ \E data \in SeqsUpTo(LoadRecords, MaxRecords) :
        /\ LoadExistingVersions(data)
        /\ known' = [ever |-> known.ever \cup PairsOf(data), since |-> PairsOf(data)]
  /\ UNCHANGED <<seen_order, last_version, repeated, procVars, procHist, workers, tally>>

\* invalidate_cache drops one institute's mappings, or all of them when the
\* argument is None or ""
KNInvalidate ==
  /\ \E e \in Institutes \cup {None} :
        /\ InvalidateCache(e)
        /\ known' = [known EXCEPT !.since =
                       IF Truthy(e) THEN {pair \in @ : pair[1] # e} ELSE {}]
  /\ UNCHANGED <<seen_order, last_version, repeated, procVars, procHist, workers, tally>>

KnownNext == KNGet \/ KNLoad \/ KNInvalidate

SpecVMKnown == VMInit /\ [][KnownNext]_vars

\* ------------------------------------------------------------------------
\* load_existing_versions as a function of the registry it finds and the list
\* it is given
\* ------------------------------------------------------------------------
\* registries that get_version calls have built
FilledRegistries ==
  LET a1 == get_version_cache(EmptyDict, <<"A">>, Sha256(1))
      a2 == get_version_cache(a1, <<"A">>, Sha256(2))
      b1 == get_version_cache(a2, <<>>, Sha256(1))
  IN {EmptyDict, a1, a2, b1}

\* the records given: any version for any pair, keys may repeat in a list
GivenRecords == [institute_id : Institutes, file_hash : LoadHashes,
                 version_number : 1..MaxGivenVersion]

GivenInit ==
  /\ version_cache \in FilledRegistries
  /\ ret = [op |-> "init", raised |-> ""]
  /\ known = NoKnown
  /\ seen_order = [e \in Institutes |-> <<>>]
  /\ last_version = NoHistory
  /\ repeated = FALSE
  /\ ProcUnused

\* one load_existing_versions call; ret keeps the list given and the registry found
LoadGiven ==
  /\ ret.op = "init"
  /\ \E existing_data \in SeqsUpTo(GivenRecords, MaxGiven) :
        /\ version_cache' = load_existing_versions(existing_data)
        /\ ret' = [op |-> "load_existing_versions", raised |-> "",
                   existing_data |-> existing_data, before |-> version_cache]
  /\ UNCHANGED <<procVars, procHist, vmHist, workers, tally>>

SpecGiven == GivenInit /\ [][LoadGiven]_vars

\* ------------------------------------------------------------------------
\* get_version called from several threads on one VersionManager. The method
\* takes no lock, so a thread can be suspended between any two of its statements;
\* each action below is one statement of the method run by one thread.
\* ------------------------------------------------------------------------
SetWorker(w, frame) == workers' = [workers EXCEPT ![w] = frame]

\* file_hash = self.compute_file_hash(file_path); file_name = file_path.name
GVCall(w, institute_id, file) ==
  LET h == compute_file_hash(file)
  IN /\ workers[w].pc = "idle"
     /\ IF h.raised # ""
          THEN SetWorker(w, [pc |-> "done", raised |-> h.raised,
                             institute_id |-> institute_id])
          ELSE SetWorker(w, [pc |-> "check_institute", raised |-> "",
                             institute_id |-> institute_id, file |-> file,
                             file_hash |-> h.file_hash,
                             unseen |-> ~is_processed(version_cache, institute_id,
                                                      h.file_hash)])
     /\ UNCHANGED <<version_cache, ret, procVars, procHist, vmHist, tally>>

\* if institute_id not in self._version_cache:
GVCheckInstitute(w) ==
  LET me == workers[w]
  IN /\ me.pc = "check_institute"
     /\ SetWorker(w, [me EXCEPT !.pc = IF me.institute_id \notin DOMAIN version_cache
                                         THEN "add_institute" ELSE "check_hash"])
     /\ UNCHANGED <<version_cache, ret, procVars, procHist, vmHist, tally>>

\*     self._version_cache[institute_id] = {}
GVAddInstitute(w) ==
  LET me == workers[w]
  IN /\ me.pc = "add_institute"
     /\ version_cache' = Put(version_cache, me.institute_id, EmptyDict)
     /\ SetWorker(w, [me EXCEPT !.pc = "check_hash"])
     /\ UNCHANGED <<ret, procVars, procHist, vmHist, tally>>

\* if file_hash in self._version_cache[institute_id]:
GVCheckHash(w) ==
  LET me == workers[w]
  IN /\ me.pc = "check_hash"
     /\ SetWorker(w, [me EXCEPT !.pc = IF me.file_hash \in DOMAIN version_cache[me.institute_id]
                                         THEN "found" ELSE "read_values"])
     /\ UNCHANGED <<version_cache, ret, procVars, procHist, vmHist, tally>>

\*     version_number = self._version_cache[institute_id][file_hash]; return
GVFound(w) ==
  LET me == workers[w]
  IN /\ me.pc = "found"
     /\ IF me.file_hash \in DOMAIN version_cache[me.institute_id]
          THEN SetWorker(w, [pc |-> "done", raised |-> "",
                             institute_id |-> me.institute_id,
                             file_hash |-> me.file_hash, unseen |-> me.unseen,
                             value |-> FileVersion(me.institute_id, me.file, me.file_hash,
                                         version_cache[me.institute_id][me.file_hash])])
          ELSE SetWorker(w, [pc |-> "done", raised |-> "KeyError",
                             institute_id |-> me.institute_id])
     /\ UNCHANGED <<version_cache, ret, procVars, procHist, vmHist, tally>>

\*     current_versions = list(self._version_cache[institute_id].values())
GVReadValues(w) ==
  LET me == workers[w]
  IN /\ me.pc = "read_values"
     /\ SetWorker(w, [pc |-> "assign", raised |-> "",
                      institute_id |-> me.institute_id, file |-> me.file,
                      file_hash |-> me.file_hash, unseen |-> me.unseen,
                      current_versions |-> Values(version_cache[me.institute_id])])
     /\ UNCHANGED <<version_cache, ret, procVars, procHist, vmHist, tally>>

\*     version_number = max(current_versions) + 1 if current_versions else 1
\*     self._version_cache[institute_id][file_hash] = version_number; return
GVAssign(w) ==
  LET me == workers[w]
      version_number == IF me.current_versions # {}
                          THEN SetMax(me.current_versions) + 1 ELSE 1
  IN /\ me.pc = "assign"
     /\ version_cache' = Put(version_cache, me.institute_id,
                             Put(version_cache[me.institute_id], me.file_hash,
                                 version_number))
     /\ SetWorker(w, [pc |-> "done", raised |-> "",
                      institute_id |-> me.institute_id,
                      file_hash |-> me.file_hash, unseen |-> me.unseen,
                      value |-> FileVersion(me.institute_id, me.file, me.file_hash,
                                            version_number)])
     /\ UNCHANGED <<ret, procVars, procHist, vmHist, tally>>

WorkersNext ==
  \E w \in Workers :
    \/ \E e \in Institutes, file \in VMFiles : GVCall(w, e, file)
    \/ GVCheckInstitute(w)
    \/ GVAddInstitute(w)
    \/ GVCheckHash(w)
    \/ GVFound(w)
    \/ GVReadValues(w)
    \/ GVAssign(w)

SpecWorkers == VMInit /\ [][WorkersNext]_vars

\* ------------------------------------------------------------------------
\* Documents offered to DocumentProcessor and ORSAPipeline
\* ------------------------------------------------------------------------
DocNames == {<<"A", "_", "r", ".xlsx">>, <<"A", ".xlsx">>, <<"_", "r", ".xlsx">>}
DocContents == 0..NumDocContents
DocFiles == {MissingFile} \cup {File(<<"r", ".xlsx">>, c) : c \in DocContents}
              \cup {File(<<"r", ".txt">>, 1)}

\* the files given to the pipeline: a missing path, workbooks, and a text file
\* with the bytes of a workbook
BatchDocNames == {<<"A", "_", "r", ".xlsx">>, <<"_", "r", ".xlsx">>}
BatchFiles ==
  {MissingFile} \cup {File(<<"r", ".xlsx">>, c) : c \in 1..NumDocContents}
                \cup {File(<<"r", ".txt">>, 1)}

Passing == Return(TRUE, "Ja", <<"ok">>)
Failing == Return(FALSE, "Nein", <<"not ok">>)
Raising == Raise(<<"Test error">>)
CheckCalls == {Passing, Failing, Raising, Raise(<<>>)}
AllPass == [i \in 1..NumChecks |-> Passing]
AllFail == [i \in 1..NumChecks |-> Failing]
RaisesAt(k) == [i \in 1..NumChecks |-> IF i = k THEN Raising ELSE Passing]
OneRaises == [i \in 1..NumChecks |-> IF i = 1 THEN Raising ELSE Failing]
Workbooks == {AllPass, AllFail} \cup {RaisesAt(k) : k \in 1..NumChecks}
BatchWorkbooks == {AllPass, OneRaises}

\* ------------------------------------------------------------------------
\* Construction: DocumentProcessor.__init__ / ORSAPipeline.__init__
\* ------------------------------------------------------------------------
ProcInit ==
  /\ version_cache = EmptyDict
  /\ tally = NoTally
  /\ workers = NoWorkers
  /\ force_reprocess = FALSE
  /\ stored = {}
  /\ processing_stats = NoStats
  /\ batch = Idle
  /\ last_doc = NoDoc
  /\ ret = [op |-> "init", raised |-> ""]
  /\ write_calls = NoWrites
  /\ offered = NoOffer
  /\ handed = NotHanded
  /\ known = NoKnown
  /\ seen_order = [e \in Institutes |-> <<>>]
  /\ last_version = NoHistory
  /\ repeated = FALSE

\* a new process: a new processor (and pipeline) over the same sink
Restart(force) ==
  /\ batch.kind = "idle"
  /\ version_cache' = load_existing_versions(get_existing_versions(stored))
  /\ force_reprocess' = force
  /\ processing_stats' = NoStats
  /\ batch' = Idle
  /\ last_doc' = NoDoc
  /\ ret' = [op |-> "init", raised |-> ""]
  /\ UNCHANGED stored

\* history: the write_results calls made for each pair
ObserveWrites ==
  /\ write_calls' =
       IF last_doc'.outcome # "none" /\ last_doc'.write # "not called"
         THEN [write_calls EXCEPT ![last_doc'.institute_id][last_doc'.file_hash] =
                 IF @ < 2 THEN @ + 1 ELSE @]
         ELSE write_calls
  /\ UNCHANGED <<offered, handed, vmHist, workers, tally>>

\* history: the version first handed out for each pair, by any processor
ObserveVersions ==
  /\ last_version' =
       IF /\ last_doc'.outcome # "none"
          /\ last_doc'.version_number # 0
          /\ last_version[last_doc'.institute_id][last_doc'.file_hash] = 0
         THEN [last_version EXCEPT ![last_doc'.institute_id][last_doc'.file_hash] =
                 last_doc'.version_number]
         ELSE last_version
  /\ UNCHANGED <<procHist, known, seen_order, repeated, workers, tally>>

\* the fate of a document that process_file was called for
Handled(institute_id, file, outcome, pf) ==
  [outcome |-> outcome, institute_id |-> institute_id,
   file_hash |-> Sha256(file.content), raised |-> pf.raised, write |-> pf.write,
   version_number |-> pf.version_info.version_number]

\* ... and of one that never reached process_file
NotProcessed(institute_id, file, outcome, raised) ==
  [outcome |-> outcome, institute_id |-> institute_id,
   file_hash |-> Sha256(file.content), raised |-> raised, write |-> "not called",
   version_number |-> 0]

\* ------------------------------------------------------------------------
\* ORSAPipeline.process_documents
\* ------------------------------------------------------------------------
CountPassed(results) == Cardinality({i \in 1..Len(results) : results[i].outcome_bool})

\* a document that exists, parses, is new for its institute and whose write succeeds
IsFresh(institute_id, file, write_ok) ==
  /\ file.exists
  /\ load_file(file).raised = ""
  /\ ~is_processed(version_cache, institute_id, Sha256(file.content))
  /\ write_ok

\* the counters of a failed and of a processed document
count_failed_as_processed(stats) == [stats EXCEPT !.files_processed = @ + 1]

count_failed_uncounted(stats) == stats

count_failed(stats) == [stats EXCEPT !.files_failed = @ + 1]

count_processed_twice(stats, check_results) ==
  [stats EXCEPT
     !.files_processed = @ + 2,
     !.checks_run = @ + Len(check_results),
     !.checks_passed = @ + CountPassed(check_results),
     !.checks_failed = @ + (Len(check_results) - CountPassed(check_results))]

count_processed_all_passed(stats, check_results) ==
  [stats EXCEPT
     !.files_processed = @ + 1,
     !.checks_run = @ + Len(check_results),
     !.checks_passed = @ + Len(check_results),
     !.checks_failed = @ + (Len(check_results) - CountPassed(check_results))]

count_processed(stats, check_results) ==
  [stats EXCEPT
     !.files_processed = @ + 1,
     !.checks_run = @ + Len(check_results),
     !.checks_passed = @ + CountPassed(check_results),
     !.checks_failed = @ + (Len(check_results) - CountPassed(check_results))]

\* process_documents is entered, on a new pipeline or on one that has served
\* calls before: the counters of processing_stats are left as they are
PipelineStart(n) ==
  /\ batch.kind = "idle"
  /\ batch' = [kind |-> "pipeline", calls |-> batch.calls, todo |-> n,
               institutes_seen |-> {}]
  /\ ret' = [op |-> "pipeline.process_documents", raised |-> "running"]
  /\ last_doc' = NoDoc
  /\ UNCHANGED <<version_cache, force_reprocess, stored, processing_stats, workers>>

\* one iteration of the loop over documents
PipelineStep(doc_name, file, workbook, write_ok) ==
  /\ batch.kind = "pipeline"
  /\ batch.todo > 0
  /\ LET institute_id == extract_institute_id(doc_name)
         sp == should_process_file(force_reprocess, version_cache, institute_id, file)
         pf == process_file(version_cache, stored, institute_id, file, workbook,
                            write_ok, NoExtra, Now)
         next == [batch EXCEPT !.todo = @ - 1]
     IN
     IF ~file.exists
       THEN /\ processing_stats' = count_failed(processing_stats)
            /\ batch' = next
            /\ last_doc' = NotProcessed(institute_id, file, "failed", "")
            /\ UNCHANGED <<version_cache, stored, workers>>
     ELSE IF sp.raised # ""
       THEN /\ processing_stats' = count_failed(processing_stats)
            /\ batch' = [next EXCEPT !.institutes_seen = @ \cup {institute_id}]
            /\ last_doc' = NotProcessed(institute_id, file, "failed", sp.raised)
            /\ UNCHANGED <<version_cache, stored, workers>>
     ELSE IF ~sp.should_process
       THEN /\ processing_stats' = [processing_stats EXCEPT !.files_skipped = @ + 1]
            /\ batch' = [next EXCEPT !.institutes_seen = @ \cup {institute_id}]
            /\ last_doc' = NotProcessed(institute_id, file, "skipped", "")
            /\ UNCHANGED <<version_cache, stored, workers>>
     ELSE IF pf.raised # ""
       THEN /\ processing_stats' = count_failed(processing_stats)
            /\ batch' = [next EXCEPT !.institutes_seen = @ \cup {institute_id}]
            /\ last_doc' = Handled(institute_id, file, "failed", pf)
            /\ version_cache' = pf.cache
            /\ stored' = pf.table
     ELSE /\ processing_stats' = count_processed(processing_stats, pf.results)
          /\ batch' = [next EXCEPT !.institutes_seen = @ \cup {institute_id}]
          /\ last_doc' = Handled(institute_id, file, "processed", pf)
          /\ version_cache' = pf.cache
          /\ stored' = pf.table
  /\ UNCHANGED <<force_reprocess, ret, workers>>

\* pass_rate as the fraction <<numerator, denominator>>; 0.0 is <<0, 1>>
PassRate(checks_passed, total_checks) ==
  IF total_checks > 0 THEN <<checks_passed, total_checks>> ELSE <<0, 1>>

Summary(stats) ==
  [files_processed |-> stats.files_processed,
   files_skipped |-> stats.files_skipped,
   files_failed |-> stats.files_failed,
   total_checks |-> stats.checks_run,
   checks_passed |-> stats.checks_passed,
   checks_failed |-> stats.checks_failed,
   pass_rate |-> PassRate(stats.checks_passed, stats.checks_run),
   institutes |-> stats.institutes]

\* the loop is over: the summary is built and returned
PipelineFinish ==
  /\ batch.kind = "pipeline"
  /\ batch.todo = 0
  /\ processing_stats' = [processing_stats EXCEPT !.institutes = batch.institutes_seen]
  /\ ret' = [op |-> "pipeline.process_documents", raised |-> "",
             value |-> Summary(processing_stats')]
  /\ batch' = [kind |-> "idle", calls |-> batch.calls + 1]
  /\ last_doc' = NoDoc
  /\ UNCHANGED <<version_cache, force_reprocess, stored, workers>>

\* the documents a pipeline has counted so far
Handled_so_far == processing_stats.files_processed + processing_stats.files_skipped
                    + processing_stats.files_failed

\* one ORSAPipeline, forced or not, built over the empty sink and serving one
\* call after another
PLRestart ==
  /\ ret.op = "init"
  /\ \E force \in BOOLEAN : Restart(force)
  /\ UNCHANGED <<procHist, vmHist, workers, tally>>

PLStart ==
  /\ batch.calls < MaxCalls
  /\ \E n \in 0..MaxDocs : Handled_so_far + n <= MaxHandled /\ PipelineStart(n)
  /\ UNCHANGED <<procHist, vmHist, workers, tally>>

PLStep ==
  /\ \E doc_name \in BatchDocNames, file \in BatchFiles, workbook \in BatchWorkbooks,
        write_ok \in BOOLEAN :
          PipelineStep(doc_name, file, workbook, write_ok)
  /\ UNCHANGED <<procHist, vmHist, workers, tally>>

PLFinish ==
  /\ PipelineFinish
  /\ UNCHANGED <<procHist, vmHist, workers, tally>>

PipelineNext == PLRestart \/ PLStart \/ PLStep \/ PLFinish

SpecPipeline == ProcInit /\ [][PipelineNext]_vars

\* one ORSAPipeline over the empty sink serving one call after another, with the
\* history of what the documents given to the call in progress were like and of
\* what the pipeline had counted when the call was made
Counted == [processed |-> processing_stats.files_processed,
            skipped |-> processing_stats.files_skipped,
            failed |-> processing_stats.files_failed]

ObserveOffer(doc_name, file, write_ok) ==
  offered' = [offered EXCEPT
                !.missing = IF file.exists THEN @ ELSE @ + 1,
                !.fresh = IF IsFresh(extract_institute_id(doc_name), file, write_ok)
                            THEN @ + 1 ELSE @]

OFRestart ==
  /\ ret.op = "init"
  /\ \E force \in BOOLEAN : Restart(force)
  /\ offered' = NoOffer
  /\ UNCHANGED <<write_calls, handed, vmHist, workers, tally>>

OFStart ==
  /\ batch.calls < MaxCalls
  /\ \E n \in 0..MaxDocs :
        /\ Handled_so_far + n <= MaxHandled
        /\ PipelineStart(n)
        /\ offered' = [NoOffer EXCEPT !.len = n, !.before = Counted]
  /\ UNCHANGED <<write_calls, handed, vmHist, workers, tally>>

OFStep ==
  /\ \E doc_name \in BatchDocNames, file \in BatchFiles, write_ok \in BOOLEAN :
          /\ PipelineStep(doc_name, file, AllPass, write_ok)
          /\ ObserveOffer(doc_name, file, write_ok)
  /\ UNCHANGED <<write_calls, handed, vmHist, workers, tally>>

OfferedNext == OFRestart \/ OFStart \/ OFStep \/ PLFinish

SpecOffered == ProcInit /\ [][OfferedNext]_vars

\* pipelines that are never forced, over a sink whose writes succeed, with the
\* history of the write_results calls
RNRestart ==
  /\ Restart(FALSE)
  /\ UNCHANGED <<procHist, vmHist, workers, tally>>

RNStart ==
  /\ batch.calls < MaxCalls
  /\ \E n \in 0..MaxDocs : Handled_so_far + n <= MaxHandled /\ PipelineStart(n)
  /\ UNCHANGED <<procHist, vmHist, workers, tally>>

RNStep ==
  /\ \E doc_name \in BatchDocNames, file \in BatchFiles :
        PipelineStep(doc_name, file, OneRaises, TRUE)
  /\ ObserveWrites

RunsNext == RNRestart \/ RNStart \/ RNStep \/ PLFinish

SpecRuns == ProcInit /\ [][RunsNext]_vars

\* "for doc_name, file_path in documents": an entry that is not a pair raises
\* ValueError at the for statement, outside the try block of the loop body
unpack_pair(document) ==
  IF Len(document) = 2
    THEN [raised |-> "", doc_name |-> document[1], file_path |-> document[2]]
    ELSE [raised |-> "ValueError"]

\* one iteration of the loop for an entry of any length
PipelineStepEntry(document, workbook, write_ok) ==
  LET u == unpack_pair(document) IN
  IF u.raised = ""
    THEN PipelineStep(u.doc_name, u.file_path, workbook, write_ok)
    ELSE /\ batch.kind = "pipeline"
         /\ batch.todo > 0
         /\ ret' = [op |-> "pipeline.process_documents", raised |-> u.raised,
                    document |-> document]
         /\ batch' = [kind |-> "idle", calls |-> batch.calls + 1]
         /\ last_doc' = NoDoc
         /\ UNCHANGED <<version_cache, force_reprocess, stored, processing_stats, workers>>

\* the entries ORSADocumentSourcer.load returns:
\* (document_name, file_path, geschaeft_nr, finma_id); and plain pairs
SourcedDocuments ==
  {<<doc_name, file, <<"G-1">>, <<"F-1">>>> : doc_name \in BatchDocNames, file \in BatchFiles}
PairDocuments ==
  {<<doc_name, file>> : doc_name \in BatchDocNames, file \in BatchFiles}

\* pipelines given lists that mix both kinds of entries
SRStep ==
  /\ \E document \in SourcedDocuments \cup PairDocuments, write_ok \in BOOLEAN :
        PipelineStepEntry(document, OneRaises, write_ok)
  /\ UNCHANGED <<procHist, vmHist, workers, tally>>

SourcedNext == RNRestart \/ RNStart \/ SRStep \/ PLFinish

SpecSourced == ProcInit /\ [][SourcedNext]_vars

\* ------------------------------------------------------------------------
\* Several process_documents calls on one ORSAPipeline
\* ------------------------------------------------------------------------
\* the start of a process_documents call that empties the counters
PipelineCall_reset(n) ==
  /\ batch.kind = "idle"
  /\ batch' = [kind |-> "pipeline", calls |-> batch.calls, todo |-> n,
               institutes_seen |-> {}]
  /\ ret' = [op |-> "pipeline.process_documents", raised |-> "running"]
  /\ last_doc' = NoDoc
  /\ processing_stats' = NoStats
  /\ UNCHANGED <<version_cache, force_reprocess, stored, workers>>

\* the start of a process_documents call, the first or a later one: the
\* counters set up by __init__ are not touched
PipelineCall(n) ==
  /\ batch.kind = "idle"
  /\ batch' = [kind |-> "pipeline", calls |-> batch.calls, todo |-> n,
               institutes_seen |-> {}]
  /\ ret' = [op |-> "pipeline.process_documents", raised |-> "running"]
  /\ last_doc' = NoDoc
  /\ UNCHANGED <<version_cache, force_reprocess, stored, processing_stats, workers>>

\* history: what became of the documents of all calls, and the checks that the
\* workbooks of the processed ones answer
ChecksPassing(workbook) ==
  Cardinality({i \in 1..NumChecks : workbook[i].kind = "return" /\ workbook[i].outcome})

ObserveOutcome(workbook) ==
  tally' =
    IF last_doc'.outcome = "processed"
      THEN [tally EXCEPT !.processed = @ + 1, !.checks = @ + NumChecks,
                         !.passed = @ + ChecksPassing(workbook)]
    ELSE IF last_doc'.outcome = "skipped" THEN [tally EXCEPT !.skipped = @ + 1]
    ELSE [tally EXCEPT !.failed = @ + 1]

\* the pipeline is built, forced or not, over the empty sink
CMRestart ==
  /\ ret.op = "init"
  /\ \E force \in BOOLEAN : Restart(force)
  /\ tally' = NoTally
  /\ UNCHANGED <<procHist, vmHist, workers>>

CMStart ==
  /\ batch.calls < MaxCalls
  /\ \E n \in 0..MaxCallDocs : PipelineCall(n)
  /\ UNCHANGED <<procHist, vmHist, workers, tally>>

CMStep ==
  /\ \E doc_name \in BatchDocNames, file \in BatchFiles, workbook \in BatchWorkbooks,
        write_ok \in BOOLEAN :
          /\ PipelineStep(doc_name, file, workbook, write_ok)
          /\ ObserveOutcome(workbook)
  /\ UNCHANGED <<procHist, vmHist, workers>>

CallsNext == CMRestart \/ CMStart \/ CMStep \/ PLFinish

SpecCalls == ProcInit /\ [][CallsNext]_vars

\* ------------------------------------------------------------------------
\* DocumentProcessor: direct calls
\* ------------------------------------------------------------------------
\* a should_process_file that registers the content it was asked about
ShouldProcessFile_caching(institute_id, file) ==
  /\ batch.kind = "idle"
  /\ LET sp == should_process_file(force_reprocess, version_cache, institute_id, file)
     IN /\ ret' = IF sp.raised # ""
                    THEN [op |-> "should_process_file", raised |-> sp.raised,
                          institute_id |-> institute_id, file |-> file]
                    ELSE [op |-> "should_process_file", raised |-> "",
                          value |-> <<sp.should_process, sp.reason>>,
                          institute_id |-> institute_id, file |-> file]
        /\ version_cache' = IF sp.raised # "" THEN version_cache
                            ELSE get_version_cache(version_cache, institute_id,
                                                   Sha256(file.content))
  /\ last_doc' = NoDoc
  /\ handed' = NotHanded
  /\ UNCHANGED <<force_reprocess, stored, processing_stats, batch, workers>>

ShouldProcessFile(institute_id, file) ==
  /\ batch.kind = "idle"
  /\ LET sp == should_process_file(force_reprocess, version_cache, institute_id, file)
     IN ret' = IF sp.raised # ""
                 THEN [op |-> "should_process_file", raised |-> sp.raised,
                       institute_id |-> institute_id, file |-> file]
                 ELSE [op |-> "should_process_file", raised |-> "",
                       value |-> <<sp.should_process, sp.reason>>,
                       institute_id |-> institute_id, file |-> file]
  /\ last_doc' = NoDoc
  /\ handed' = NotHanded
  /\ UNCHANGED <<version_cache, force_reprocess, stored, processing_stats, batch, workers>>

ProcessFile(institute_id, file, workbook, write_ok, extra, now) ==
  /\ batch.kind = "idle"
  /\ LET pf == process_file(version_cache, stored, institute_id, file, workbook,
                            write_ok, extra, now)
     IN /\ version_cache' = pf.cache
        /\ stored' = pf.table
        /\ ret' = IF pf.raised # ""
                    THEN [op |-> "process_file", raised |-> pf.raised,
                          institute_id |-> institute_id, file |-> file]
                    ELSE [op |-> "process_file", raised |-> "",
                          value |-> <<pf.version_info, pf.results>>,
                          institute_id |-> institute_id, file |-> file, extra |-> extra]
        /\ last_doc' = Handled(institute_id, file,
                               IF pf.raised # "" THEN "failed" ELSE "processed", pf)
        /\ handed' = [called |-> pf.write # "not called",
                      results |-> IF pf.write # "not called" THEN pf.results ELSE <<>>,
                      opened |-> pf.opened, calls |-> pf.calls]
  /\ UNCHANGED <<force_reprocess, processing_stats, batch, workers>>

RunCheck(check_name, call) ==
  /\ batch.kind = "idle"
  /\ LET r == run_check(check_name, call)
     IN ret' = [op |-> "run_check", raised |-> r.raised,
                value |-> <<r.outcome, r.value, r.description>>,
                check_name |-> check_name, call |-> call]
  /\ last_doc' = NoDoc
  /\ handed' = NotHanded
  /\ UNCHANGED <<version_cache, force_reprocess, stored, processing_stats, batch, workers>>

\* ------------------------------------------------------------------------
\* DocumentProcessor.process_documents
\* ------------------------------------------------------------------------
ProcessorStart(n) ==
  /\ batch.kind = "idle"
  /\ batch' = [kind |-> "processor", calls |-> batch.calls, len |-> n, todo |-> n,
               all_results |-> <<>>, processed_count |-> 0, skipped_count |-> 0]
  /\ ret' = [op |-> "process_documents", raised |-> "running"]
  /\ last_doc' = NoDoc
  /\ UNCHANGED <<version_cache, force_reprocess, stored, processing_stats, workers>>

\* one iteration of the loop; an exception of should_process_file is not caught
\* and ends the call
ProcessorStep(doc_name, file, workbook, write_ok) ==
  /\ batch.kind = "processor"
  /\ batch.todo > 0
  /\ LET institute_id == extract_institute_id(doc_name)
         sp == should_process_file(force_reprocess, version_cache, institute_id, file)
         pf == process_file(version_cache, stored, institute_id, file, workbook,
                            write_ok, NoExtra, Now)
     IN
     IF sp.raised # ""
       THEN /\ ret' = [op |-> "process_documents", raised |-> sp.raised,
                       len |-> batch.len, handled |-> batch.len - batch.todo]
            /\ batch' = [kind |-> "idle", calls |-> batch.calls]
            /\ last_doc' = NotProcessed(institute_id, file, "aborted", sp.raised)
            /\ UNCHANGED <<version_cache, stored, workers>>
     ELSE IF ~sp.should_process
       THEN /\ batch' = [batch EXCEPT !.todo = @ - 1, !.skipped_count = @ + 1]
            /\ last_doc' = NotProcessed(institute_id, file, "skipped", "")
            /\ UNCHANGED <<version_cache, stored, ret, workers>>
     ELSE IF pf.raised # ""
       THEN /\ batch' = [batch EXCEPT !.todo = @ - 1]
            /\ last_doc' = Handled(institute_id, file, "failed", pf)
            /\ version_cache' = pf.cache
            /\ stored' = pf.table
            /\ UNCHANGED ret
     ELSE /\ batch' = [batch EXCEPT
                         !.todo = @ - 1, !.processed_count = @ + 1,
                         !.all_results =
                            Append(@, <<institute_id, pf.version_info, pf.results>>)]
          /\ last_doc' = Handled(institute_id, file, "processed", pf)
          /\ version_cache' = pf.cache
          /\ stored' = pf.table
          /\ UNCHANGED ret
  /\ UNCHANGED <<force_reprocess, processing_stats, workers>>

ProcessorFinish ==
  /\ batch.kind = "processor"
  /\ batch.todo = 0
  /\ ret' = [op |-> "process_documents", raised |-> "", value |-> batch.all_results,
             len |-> batch.len, handled |-> batch.len]
  /\ batch' = [kind |-> "idle", calls |-> batch.calls]
  /\ last_doc' = NoDoc
  /\ UNCHANGED <<version_cache, force_reprocess, stored, processing_stats, workers>>

\* one DocumentProcessor after another over the same sink, used through
\* process_documents, with the history of the versions handed out
DPRestart ==
  /\ \E force \in BOOLEAN : Restart(force)
  /\ UNCHANGED <<procHist, vmHist, workers, tally>>

DPStart ==
  /\ \E n \in 0..MaxDocs : ProcessorStart(n)
  /\ UNCHANGED <<procHist, vmHist, workers, tally>>

DPStep ==
  /\ \E doc_name \in DocNames, file \in DocFiles, write_ok \in BOOLEAN :
        ProcessorStep(doc_name, file, OneRaises, write_ok)
  /\ ObserveVersions

DPFinish ==
  /\ ProcessorFinish
  /\ UNCHANGED <<procHist, vmHist, workers, tally>>

ProcessorNext == DPRestart \/ DPStart \/ DPStep \/ DPFinish

SpecProcessor == ProcInit /\ [][ProcessorNext]_vars

\* one DocumentProcessor after another, used through direct calls for one
\* institute
FileInstitutes == {<<"A">>}

DFRestart ==
  /\ \E force \in BOOLEAN : Restart(force)
  /\ handed' = NotHanded
  /\ UNCHANGED <<write_calls, offered, vmHist, workers, tally>>

DFShould ==
  /\ \E e \in FileInstitutes, file \in DocFiles : ShouldProcessFile(e, file)
  /\ UNCHANGED <<write_calls, offered, vmHist, workers, tally>>

DFProcess ==
  /\ \E e \in FileInstitutes, file \in DocFiles, workbook \in Workbooks,
        write_ok \in BOOLEAN, call \in ProcessCalls :
          ProcessFile(e, file, workbook, write_ok, call.extra, call.now)
  /\ UNCHANGED <<write_calls, offered, vmHist, workers, tally>>

DFRunCheck ==
  /\ \E i \in 1..NumChecks, call \in CheckCalls : RunCheck(REGISTERED_CHECKS[i], call)
  /\ UNCHANGED <<write_calls, offered, vmHist, workers, tally>>

FileNext == DFRestart \/ DFShould \/ DFProcess \/ DFRunCheck

SpecFile == ProcInit /\ [][FileNext]_vars

\* ------------------------------------------------------------------------
\* The query operations of a processor and of its VersionManager
\* ------------------------------------------------------------------------
\* a query: ret holds its name, arguments and answer; nothing else changes
Query(op, answer) ==
  /\ batch.kind = "idle"
  /\ ret' = [op |-> op] @@ answer
  /\ last_doc' = NoDoc
  /\ handed' = NotHanded
  /\ UNCHANGED <<version_cache, force_reprocess, stored, processing_stats, batch,
                 workers>>

IsProcessed(institute_id, file_hash) ==
  Query("is_processed",
        [raised |-> "", value |-> is_processed(version_cache, institute_id, file_hash),
         institute_id |-> institute_id, file_hash |-> file_hash])

GetLatestVersion(institute_id) ==
  Query("get_latest_version",
        [raised |-> "", value |-> get_latest_version(version_cache, institute_id),
         institute_id |-> institute_id])

GetCacheStatus(institute_id, file) ==
  Query("get_cache_status",
        get_cache_status(version_cache, institute_id, file)
          @@ [institute_id |-> institute_id, file |-> file])

GetCacheStatistics ==
  Query("get_cache_statistics",
        [raised |-> "", value |-> get_cache_statistics(version_cache)])

QueryOps == {"should_process_file", "is_processed", "get_latest_version",
             "get_cache_status", "get_cache_statistics"}

QRProcess ==
  /\ \E e \in FileInstitutes, file \in DocFiles, write_ok \in BOOLEAN :
        ProcessFile(e, file, OneRaises, write_ok, NoExtra, Now)
  /\ UNCHANGED <<write_calls, offered, vmHist, workers, tally>>

QRShould ==
  /\ \E e \in FileInstitutes, file \in DocFiles : ShouldProcessFile(e, file)
  /\ UNCHANGED <<write_calls, offered, vmHist, workers, tally>>

QRIsProcessed ==
  /\ \E e \in Institutes, file \in DocFiles : IsProcessed(e, Sha256(file.content))
  /\ UNCHANGED <<write_calls, offered, vmHist, workers, tally>>

QRLatest ==
  /\ \E e \in Institutes : GetLatestVersion(e)
  /\ UNCHANGED <<write_calls, offered, vmHist, workers, tally>>

QRStatus ==
  /\ \E e \in Institutes, file \in DocFiles : GetCacheStatus(e, file)
  /\ UNCHANGED <<write_calls, offered, vmHist, workers, tally>>

QRStatistics ==
  /\ GetCacheStatistics
  /\ UNCHANGED <<write_calls, offered, vmHist, workers, tally>>

QueryNext ==
  DFRestart \/ QRProcess \/ QRShould \/ QRIsProcessed \/ QRLatest \/ QRStatus
    \/ QRStatistics

SpecQuery == ProcInit /\ [][QueryNext]_vars

\* one pipeline after another over the same sink, forced or not, given files of
\* every kind (missing, not a workbook, workbooks, a wrong suffix) of one
\* institute, with no history kept
NormalDocNames == {<<"A", "_", "r", ".xlsx">>}

NPStep ==
  /\ \E doc_name \in NormalDocNames, file \in DocFiles, write_ok \in BOOLEAN :
        PipelineStep(doc_name, file, OneRaises, write_ok)
  /\ UNCHANGED <<procHist, vmHist, workers, tally>>

NormalNext == DPRestart \/ RNStart \/ NPStep \/ PLFinish

SpecNormal == ProcInit /\ [][NormalNext]_vars

\* ------------------------------------------------------------------------
\* CachedDocumentProcessor: a DocumentProcessor with cache control
\* ------------------------------------------------------------------------
\* __init__: the processor is built with force_reprocess = not cache_enabled and
\* loads the registry from what get_existing_versions returns, which is the
\* empty list when the query fails
Startup(cache_enabled, query_ok) ==
  /\ batch.kind = "idle"
  /\ version_cache' = load_existing_versions(IF query_ok THEN get_existing_versions(stored)
                                                         ELSE <<>>)
  /\ force_reprocess' = ~cache_enabled
  /\ processing_stats' = NoStats
  /\ batch' = Idle
  /\ last_doc' = NoDoc
  /\ ret' = [op |-> "init", raised |-> ""]
  /\ UNCHANGED stored

\* CachedDocumentProcessor.invalidate_cache
CachedInvalidateCache(institute_id) ==
  /\ batch.kind = "idle"
  /\ InvalidateCache(institute_id)
  /\ last_doc' = NoDoc
  /\ UNCHANGED <<force_reprocess, stored, processing_stats, batch>>

\* the files given to the cached processor: a missing path, bytes that are not a
\* workbook (content 0) and workbooks
CachedFiles == {MissingFile} \cup {File(<<"r", ".xlsx">>, c) : c \in 0..NumCachedContents}

CDStartup ==
  /\ \E cache_enabled \in BOOLEAN, query_ok \in BOOLEAN : Startup(cache_enabled, query_ok)
  /\ handed' = NotHanded
  /\ UNCHANGED <<write_calls, offered, vmHist, workers, tally>>

CDInvalidate ==
  /\ \E institute_id \in FileInstitutes \cup {None} : CachedInvalidateCache(institute_id)
  /\ handed' = NotHanded
  /\ UNCHANGED <<write_calls, offered, vmHist, workers, tally>>

CDProcess ==
  /\ \E e \in FileInstitutes, file \in CachedFiles, write_ok \in BOOLEAN :
        ProcessFile(e, file, OneRaises, write_ok, NoExtra, Now)
  /\ UNCHANGED <<write_calls, offered, vmHist, workers, tally>>

CachedNext == CDStartup \/ CDInvalidate \/ CDProcess

SpecCached == ProcInit /\ [][CachedNext]_vars

\* ------------------------------------------------------------------------
\* Properties of the VersionManager
\* ------------------------------------------------------------------------
\* C4: on a VersionManager that starts empty and only serves get_version, the
\* k-th fingerprint newly seen for an institute holds version k (so the
\* versions are 1..n in order of first appearance, the first being 1), and
\* the call that returns a fingerprint returns its position k.
C4_VersionsInOrder ==
  /\ \A e \in Institutes : \A k \in 1..Len(seen_order[e]) :
        /\ is_processed(version_cache, e, seen_order[e][k])
        /\ version_cache[e][seen_order[e][k]] = k
  /\ \A e \in DOMAIN version_cache :
        DOMAIN version_cache[e] = Range(seen_order[e])
  /\ Returned(ret) =>
        \E k \in 1..Len(seen_order[ret.value.institute_id]) :
          /\ seen_order[ret.value.institute_id][k] = ret.value.file_hash
          /\ ret.value.version_number = k

C4_Witness ==
  /\ Returned(ret)
  /\ ret.value.version_number = 3
  /\ \E e \in Institutes \ {ret.value.institute_id} : Len(seen_order[e]) >= 2

\* C5: a get_version call for a pair that get_version already served, with no
\* load_existing_versions or invalidate_cache in between, returns the version
\* of the earlier call and leaves the registry as it was.
C5_SecondCallSame ==
  [][repeated' =>
       /\ ret'.value.version_number =
            last_version[ret'.value.institute_id][ret'.value.file_hash]
       /\ version_cache' = version_cache]_vars

C5_Witness ==
  /\ repeated
  /\ \E f \in DOMAIN version_cache[ret.value.institute_id] :
        /\ version_cache[ret.value.institute_id][f] > ret.value.version_number
        /\ last_version[ret.value.institute_id][f] # 0
  /\ \E e \in Institutes \ {ret.value.institute_id} :
        \E f \in Hashes : last_version[e][f] # 0

\* ------------------------------------------------------------------------
\* Properties of the DocumentProcessor and the ORSAPipeline
\* ------------------------------------------------------------------------
\* C1: with force_reprocess = False and a sink whose writes and
\* get_existing_versions succeed, write_results is called at most once for
\* each (institute, fingerprint), over any sequence of batch runs and restarts.
C1_AtMostOneWrite ==
  \A e \in Institutes : \A f \in Hashes : write_calls[e][f] <= 1

\* a document is skipped by a pipeline that has processed nothing itself: its
\* one write was made by an earlier process
C1_Witness ==
  /\ last_doc.outcome = "skipped"
  /\ write_calls[last_doc.institute_id][last_doc.file_hash] = 1
  /\ processing_stats.files_processed = 0
  /\ processing_stats.files_failed > 0

\* C2 (as stated): whenever process_file is given a pair, the version it uses
\* is the version first assigned to that pair, also by a later processor built
\* from get_existing_versions, whatever the outcome of the first call was.
C2_Original ==
  (last_doc.outcome # "none" /\ last_doc.version_number # 0) =>
     last_doc.version_number = last_version[last_doc.institute_id][last_doc.file_hash]

\* C3 (as stated): a pair is in the registry exactly when the sink holds rows
\* for it.
C3_Original ==
  \A e \in Institutes : \A f \in Hashes :
     is_processed(version_cache, e, f) <=>
       \E t \in stored : t.institute_id = e /\ t.file_hash = f

\* C6 (as stated): run_check on a check that raises returns outcome False and
\* a non-empty description that contains the check's name, and does not raise.
\* run_check builds the description from the exception's message alone.
C6_Original ==
  (ret.op = "run_check" /\ ret.call.kind = "raise") =>
     /\ ret.raised = ""
     /\ ret.value[1] = FALSE
     /\ ret.value[3] # <<>>
     /\ \E i \in 1..Len(ret.value[3]) : ret.value[3][i] = ret.check_name

\* C7: process_file hands to write_results, and returns, exactly one
\* CheckResult per entry of get_all_checks(), in that order and under the
\* entry's name; a check that raises does not keep the later ones from running.
C7_OneResultPerCheck ==
  /\ handed.called =>
        /\ Len(handed.results) = Len(get_all_checks)
        /\ \A i \in 1..Len(get_all_checks) :
              handed.results[i].check_name = get_all_checks[i]
  /\ (ret.op = "process_file" /\ ret.raised = "") =>
        /\ handed.called
        /\ ret.value[2] = handed.results

\* the first check raised and the last one still ran and passed
C7_Witness ==
  /\ ret.op = "process_file"
  /\ ret.raised = ""
  /\ ret.value[2][1].check_description = <<"Check failed with error: ", "Test error">>
  /\ ret.value[2][Len(get_all_checks)].outcome_bool

\* C8 (as stated): a process_documents call given three documents, of which one
\* path is missing and the other two are unseen, valid and written, does not
\* raise and returns files_failed = 1 and files_processed = 2.
C8_Original ==
  (/\ ret.op = "pipeline.process_documents"
   /\ ret.raised # "running"
   /\ offered.len = 3 /\ offered.missing = 1 /\ offered.fresh = 2) =>
     /\ ret.raised = ""
     /\ ret.value.files_failed = 1
     /\ ret.value.files_processed = 2

\* C8 (amended): such a call does not raise and returns the counts the pipeline
\* had before the call plus 1 for files_failed, plus 2 for files_processed and
\* plus 0 for files_skipped; they are 1, 2 and 0 when the pipeline had counted
\* no document before, as on its first call.
C8_OneMissingOfThree ==
  (/\ ret.op = "pipeline.process_documents"
   /\ ret.raised # "running"
   /\ offered.len = 3 /\ offered.missing = 1 /\ offered.fresh = 2) =>
     /\ ret.raised = ""
     /\ ret.value.files_failed = offered.before.failed + 1
     /\ ret.value.files_processed = offered.before.processed + 2
     /\ ret.value.files_skipped = offered.before.skipped
     /\ batch.calls = 1 =>
           /\ ret.value.files_failed = 1
           /\ ret.value.files_processed = 2
           /\ ret.value.files_skipped = 0

\* the second call of a pipeline, whose first call was given a missing path
C8_Witness ==
  /\ ret.op = "pipeline.process_documents"
  /\ ret.raised = ""
  /\ offered.len = 3 /\ offered.missing = 1 /\ offered.fresh = 2
  /\ batch.calls = 2
  /\ offered.before.failed = 1
  /\ ret.value.files_failed = 2
  /\ ret.value.files_processed = 2
  /\ Cardinality(ret.value.institutes) = 2

\* C9 (as stated): DocumentProcessor.process_documents handles every document
\* of its list and returns, whatever fails for one document.
C9_Original ==
  (ret.op = "process_documents" /\ ret.raised # "running") =>
     /\ ret.raised = ""
     /\ ret.handled = ret.len

\* C10: when write_results raises for a document inside
\* ORSAPipeline.process_documents, the document is counted in files_failed and
\* not in files_processed, and the loop goes on to the next document.
C10_WriteFailureCounted ==
  [][(/\ batch.kind = "pipeline"
      /\ last_doc'.outcome # "none"
      /\ last_doc'.write = "failed") =>
        /\ processing_stats'.files_failed = processing_stats.files_failed + 1
        /\ processing_stats'.files_processed = processing_stats.files_processed
        /\ batch'.kind = "pipeline"
        /\ batch'.todo = batch.todo - 1]_vars

\* a write failed after one document was processed, and documents remain
C10_Witness ==
  /\ batch.kind = "pipeline"
  /\ last_doc.outcome = "failed"
  /\ last_doc.write = "failed"
  /\ batch.todo > 0
  /\ processing_stats.files_processed = 1
  /\ processing_stats.files_failed = 1

\* C11: with force_reprocess = True, should_process_file returns
\* (True, "Force reprocess mode enabled") for every institute and path, whether
\* or not the pair is in the registry, and even when the path is missing.
C11_ForcedAlwaysTrue ==
  (ret.op = "should_process_file" /\ force_reprocess) =>
     /\ ret.raised = ""
     /\ ret.value = <<TRUE, <<"Force reprocess mode enabled">>>>

\* a forced processor is asked about a pair its registry holds
C11_Witness ==
  /\ ret.op = "should_process_file"
  /\ force_reprocess
  /\ ret.file.exists
  /\ is_processed(version_cache, ret.institute_id, Sha256(ret.file.content))
  /\ ret.value[1]

\* C12: with force_reprocess = False and an existing file, should_process_file
\* returns (False, "File hash ... already processed") exactly when the pair is
\* in the registry, and (True, "New file hash") otherwise.
C12_UnforcedFollowsRegistry ==
  (ret.op = "should_process_file" /\ ~force_reprocess /\ ret.file.exists) =>
     /\ ret.raised = ""
     /\ ret.value =
          IF is_processed(version_cache, ret.institute_id, Sha256(ret.file.content))
            THEN <<FALSE, <<"File hash ", "... already processed">>>>
            ELSE <<TRUE, <<"New file hash">>>>

\* both answers have been given by one processor: the last one is "already
\* processed", while another fingerprint is still new to it
C12_Witness ==
  /\ ret.op = "should_process_file"
  /\ ~force_reprocess
  /\ ret.file.exists
  /\ ret.raised = ""
  /\ ~ret.value[1]
  /\ \E f \in Hashes : ~is_processed(version_cache, ret.institute_id, f)

\* C13 (as stated): after any sequence of VersionManager operations,
\* is_processed(e, f) holds exactly when get_version was called for (e, f)
\* before, or load_existing_versions was given a record with that pair.
C13_Original ==
  \A e \in Institutes : \A f \in Hashes :
     is_processed(version_cache, e, f) <=> <<e, f>> \in known.ever

\* C13 (amended): is_processed(e, f) holds exactly when, since the last
\* load_existing_versions and the last invalidate_cache that dropped the
\* institute's mappings, get_version was called for (e, f), or that last load
\* was given a record with the pair.
C13_KnownSinceLastDrop ==
  \A e \in Institutes : \A f \in Hashes :
     is_processed(version_cache, e, f) <=> <<e, f>> \in known.since

\* a pair given earlier is no longer known, while pairs given since the drop are
C13_Witness ==
  /\ known.since # {}
  /\ known.ever \ known.since # {}
  /\ \E pair \in known.since : \E other \in known.ever \ known.since :
        pair[1] # other[1]
  /\ ret.op = "get_version"

\* C14: for a registry R reached from empty by get_version calls, a fresh
\* VersionManager loaded with R's records answers is_processed as R does for
\* every pair, returns the version R would return for every get_version, and
\* is left by it in the state R would be left in (so every later call agrees).
C14_RoundTrip ==
  LET fresh == load_existing_versions(registry_records(version_cache))
  IN \A e \in Institutes : \A f \in Hashes :
       /\ is_processed(fresh, e, f) = is_processed(version_cache, e, f)
       /\ get_version_number(fresh, e, f) = get_version_number(version_cache, e, f)
       /\ get_version_cache(fresh, e, f) = get_version_cache(version_cache, e, f)

\* a registry with two institutes, one of them with three fingerprints
C14_Witness ==
  /\ Cardinality(DOMAIN version_cache) = 2
  /\ \E e \in DOMAIN version_cache : Cardinality(DOMAIN version_cache[e]) = 3
  /\ Len(registry_records(version_cache)) >= 4
  /\ load_existing_versions(registry_records(version_cache)) = version_cache

\* C15: a get_version call for institute e returns a version that depends only
\* on e's own mappings (1 when e has none, whatever other institutes hold),
\* leaves every other institute's mappings as they were, and so leaves the
\* next version of every other institute as it was.
C15_InstitutesIndependent ==
  [][Returned(ret') =>
       LET e == ret'.value.institute_id
           own == IF e \in DOMAIN version_cache
                    THEN Put(EmptyDict, e, version_cache[e]) ELSE EmptyDict
       IN /\ ret'.value.version_number =
               get_version_number(own, e, ret'.value.file_hash)
          /\ e \notin DOMAIN version_cache => ret'.value.version_number = 1
          /\ \A other \in Institutes \ {e} :
                /\ (other \in DOMAIN version_cache') = (other \in DOMAIN version_cache)
                /\ other \in DOMAIN version_cache =>
                      version_cache'[other] = version_cache[other]
                /\ next_version(version_cache', other) = next_version(version_cache, other)
    ]_vars

\* the same content got version 1 for an institute after another institute
\* had been given it and more
C15_Witness ==
  /\ Returned(ret)
  /\ ret.value.version_number = 1
  /\ Len(seen_order[ret.value.institute_id]) = 1
  /\ \E other \in Institutes \ {ret.value.institute_id} :
        /\ Len(seen_order[other]) >= 2
        /\ seen_order[other][1] = ret.value.file_hash

\* C16: every CheckResult a process_file call returns carries the institute_id
\* the caller passed, the file name, fingerprint and version of the FileVersion
\* the call returns, and one and the same processed_at; and the list handed to
\* write_results is the list returned.
C16_ResultsStamped ==
  (ret.op = "process_file" /\ ret.raised = "") =>
     LET version_info == ret.value[1]
         results == ret.value[2]
     IN /\ version_info.institute_id = last_doc.institute_id
        /\ version_info.file_name = ret.file.name
        /\ version_info.file_hash = Sha256(ret.file.content)
        /\ \A i \in 1..Len(results) :
              /\ results[i].institute_id = last_doc.institute_id
              /\ results[i].file_name = version_info.file_name
              /\ results[i].file_hash = version_info.file_hash
              /\ results[i].version_number = version_info.version_number
              /\ results[i].processed_at = results[1].processed_at
        /\ handed.called
        /\ handed.results = results

\* a second version of an institute was processed and stamped
C16_Witness ==
  /\ ret.op = "process_file"
  /\ ret.raised = ""
  /\ Len(ret.value[2]) = Len(get_all_checks)
  /\ ret.value[2][Len(get_all_checks)].version_number = 2
  /\ ret.value[2][Len(get_all_checks)].processed_at = Later

\* C17 (as stated): ORSAPipeline.process_documents accepts an entry
\* (name, path, business reference, external id) of the DocumentSource: the
\* call goes on and returns.
C17_Original ==
  ret.op = "pipeline.process_documents" => ret.raised \in {"running", ""}

\* C18: in an ORSAPipeline.process_documents call every document ends in
\* exactly one of skipped, processed, failed: each loop step adds one to exactly
\* one of the three counters, the one of the document's outcome, and moves on
\* to the next document; so the three counters together grow by the number of
\* documents handled so far, and by the length of the list when the call returns.
C18_OneOutcomePerDocument ==
  [][/\ batch'.kind = "pipeline" =>
          processing_stats'.files_processed + processing_stats'.files_skipped
            + processing_stats'.files_failed
          = offered'.before.processed + offered'.before.skipped + offered'.before.failed
            + offered'.len - batch'.todo
     /\ (ret'.op = "pipeline.process_documents" /\ ret'.raised = "") =>
          ret'.value.files_processed + ret'.value.files_skipped
            + ret'.value.files_failed
          = offered'.before.processed + offered'.before.skipped + offered'.before.failed
            + offered'.len
     /\ (batch.kind = "pipeline" /\ batch'.kind = "pipeline") =>
          /\ batch'.todo = batch.todo - 1
          /\ last_doc'.outcome \in {"processed", "skipped", "failed"}
          /\ processing_stats'.files_processed = processing_stats.files_processed
               + (IF last_doc'.outcome = "processed" THEN 1 ELSE 0)
          /\ processing_stats'.files_skipped = processing_stats.files_skipped
               + (IF last_doc'.outcome = "skipped" THEN 1 ELSE 0)
          /\ processing_stats'.files_failed = processing_stats.files_failed
               + (IF last_doc'.outcome = "failed" THEN 1 ELSE 0)]_vars

\* a call returned after one document of each outcome
C18_Witness ==
  /\ ret.op = "pipeline.process_documents"
  /\ ret.raised = ""
  /\ offered.len = 3
  /\ ret.value.files_processed = 1
  /\ ret.value.files_skipped = 1
  /\ ret.value.files_failed = 1

\* C19: two workers that called get_version for the same institute with two
\* different fingerprints, both unknown when they called, hold different
\* version numbers once both have returned, whatever the interleaving.
C19_Original ==
  \A w1 \in Workers : \A w2 \in Workers \ {w1} :
    (/\ workers[w1].pc = "done" /\ workers[w1].raised = ""
     /\ workers[w2].pc = "done" /\ workers[w2].raised = ""
     /\ workers[w1].institute_id = workers[w2].institute_id
     /\ workers[w1].file_hash # workers[w2].file_hash
     /\ workers[w1].unseen /\ workers[w2].unseen)
    => workers[w1].value.version_number # workers[w2].value.version_number

\* C20: in every reachable state the version numbers the registry holds for an
\* institute are exactly 1..n, n the number of fingerprints it holds for it.
C20_Original ==
  \A e \in DOMAIN version_cache :
    Values(version_cache[e]) = 1..Cardinality(DOMAIN version_cache[e])

\* ------------------------------------------------------------------------
\* Properties of the registry and the sink together
\* ------------------------------------------------------------------------
\* C21: when process_file writes the results of a fingerprint the sink does not
\* hold yet for the institute, their version number differs from every version
\* the sink already holds for that institute, and no row of the sink is lost.
C21_Original ==
  [][(/\ ret'.op = "process_file"
      /\ last_doc'.write = "ok"
      /\ ~\E t \in stored : /\ t.institute_id = last_doc'.institute_id
                            /\ t.file_hash = last_doc'.file_hash)
     => /\ ~\E t \in stored : /\ t.institute_id = last_doc'.institute_id
                              /\ t.version_number = last_doc'.version_number
        /\ stored \subseteq stored']_vars

\* ------------------------------------------------------------------------
\* Properties of the steps inside process_file
\* ------------------------------------------------------------------------
IsACall(name) == name # "close_workbook"
ParseErrors == {"FileNotFoundError", "ValueError", "InvalidFileException"}

\* C22: the calls of a process_file call are, in this order, the fingerprint, the
\* version, load_file, one run_check per registered check and write_results, cut
\* off where a step raised: write_results is called at most once and only after
\* all checks ran, and when the file is missing or does not parse no check runs
\* and write_results is not called.
C22_StepsInOrder ==
  ret.op = "process_file" =>
    LET calls == SelectSeq(handed.calls, IsACall)
        steps == <<"compute_file_hash", "assign_version", "load_file">>
                   \o [i \in 1..Len(get_all_checks) |-> "run_check"]
                   \o <<"write_results">>
    IN /\ Len(calls) <= Len(steps)
       /\ calls = SubSeq(steps, 1, Len(calls))
       /\ Cardinality({i \in 1..Len(calls) : calls[i] = "write_results"}) <= 1
       /\ handed.called <=> "write_results" \in Range(calls)
       /\ handed.called =>
            Cardinality({i \in 1..Len(calls) : calls[i] = "run_check"}) = Len(get_all_checks)
       /\ last_doc.raised \in ParseErrors =>
            /\ "run_check" \notin Range(calls)
            /\ "write_results" \notin Range(calls)
            /\ ~handed.called

\* a call that ran every check and then wrote
C22_Witness ==
  /\ ret.op = "process_file"
  /\ ret.raised = ""
  /\ handed.called
  /\ Len(handed.results) = NumChecks
  /\ handed.calls[Len(handed.calls) - 1] = "write_results"

\* C30: a process_file call that opened a workbook (load_file returned) closes
\* it exactly once, as its last call, whether it then returns or raises because
\* write_results failed; a call whose load_file raised, or that never reached
\* load_file, does not call close_workbook.
C30_ClosedOnEveryPath ==
  ret.op = "process_file" =>
    LET calls == handed.calls
        closes == Cardinality({i \in 1..Len(calls) : calls[i] = "close_workbook"})
    IN /\ handed.opened <=> ("load_file" \in Range(calls) /\ last_doc.raised \notin ParseErrors)
       /\ handed.opened => /\ closes = 1
                           /\ calls[Len(calls)] = "close_workbook"
       /\ ~handed.opened => closes = 0

\* a call whose write failed after the workbook was opened
C30_Witness ==
  /\ ret.op = "process_file"
  /\ ret.raised = "OperationalError"
  /\ handed.opened
  /\ handed.calls[Len(handed.calls)] = "close_workbook"
  /\ handed.calls[Len(handed.calls) - 1] = "write_results"

\* C23: outside a startup load (and with no invalidate_cache), every step of
\* processing - the should_process_file and process_file calls of a
\* process_documents loop, whatever their outcome - keeps every (institute,
\* fingerprint) entry of the registry, with the version number it had.
C23_RegistryAppendOnly ==
  [][ret'.op # "init" =>
       \A e \in DOMAIN version_cache :
         /\ e \in DOMAIN version_cache'
         /\ \A f \in DOMAIN version_cache[e] :
              /\ f \in DOMAIN version_cache'[e]
              /\ version_cache'[e][f] = version_cache[e][f]]_vars

\* a forced pipeline has processed a document again while the registry held two
\* fingerprints of its institute
C23_Witness ==
  /\ batch.kind = "pipeline"
  /\ force_reprocess
  /\ last_doc.outcome = "processed"
  /\ last_doc.institute_id \in DOMAIN version_cache
  /\ Cardinality(DOMAIN version_cache[last_doc.institute_id]) >= 2
  /\ \E t \in stored : /\ t.institute_id = last_doc.institute_id
                       /\ t.file_hash = last_doc.file_hash

\* ------------------------------------------------------------------------
\* Properties of load_existing_versions and invalidate_cache
\* ------------------------------------------------------------------------
\* C24: after load_existing_versions(records) the registry holds exactly the
\* pairs that occur in records, whatever it held before, each with the version
\* of the last record of its key.
C24_LoadReplaces ==
  ret.op = "load_existing_versions" =>
    LET data == ret.existing_data
        At(e, f) == {i \in 1..Len(data) : data[i].institute_id = e /\ data[i].file_hash = f}
    IN \A e \in Institutes : \A f \in Hashes :
         /\ is_processed(version_cache, e, f) <=> At(e, f) # {}
         /\ At(e, f) # {} =>
              version_cache[e][f] = data[SetMax(At(e, f))].version_number

\* a list that gives one key twice with different versions, loaded over a
\* registry holding a pair the list does not mention
C24_Witness ==
  /\ ret.op = "load_existing_versions"
  /\ Len(ret.existing_data) = 2
  /\ ret.existing_data[1].institute_id = ret.existing_data[2].institute_id
  /\ ret.existing_data[1].file_hash = ret.existing_data[2].file_hash
  /\ ret.existing_data[1].version_number # ret.existing_data[2].version_number
  /\ \E e \in DOMAIN ret.before : \E f \in DOMAIN ret.before[e] :
        ~is_processed(version_cache, e, f)

\* the registry holds nothing for the institute and would number it from 1
Emptied(cache, e) ==
  /\ \A f \in Hashes : ~is_processed(cache, e, f)
  /\ \A f \in Hashes : get_version_number(cache, e, f) = 1

\* the mappings of every institute other than e are as they were
OthersKept(before, after, e) ==
  \A e2 \in DOMAIN before \ {e} : e2 \in DOMAIN after /\ after[e2] = before[e2]

\* C25 (as stated): for every institute identifier e, invalidate_cache(e) empties
\* the institute e and leaves the mappings of every other institute unchanged;
\* invalidate_cache() empties every institute.
C25_Original ==
  [][ret'.op = "invalidate_cache" =>
       IF ret'.institute_id # None
         THEN /\ Emptied(version_cache', ret'.institute_id)
              /\ OthersKept(version_cache, version_cache', ret'.institute_id)
         ELSE \A e \in Institutes : Emptied(version_cache', e)]_vars

\* C25 restricted to non-empty identifiers: for every such e, invalidate_cache(e)
\* empties the institute e and leaves the mappings of every other institute
\* unchanged; invalidate_cache() and invalidate_cache("") empty every institute.
C25_NonEmptyIdOnly ==
  [][ret'.op = "invalidate_cache" =>
       IF Truthy(ret'.institute_id)
         THEN /\ Emptied(version_cache', ret'.institute_id)
              /\ OthersKept(version_cache, version_cache', ret'.institute_id)
         ELSE \A e \in Institutes : Emptied(version_cache', e)]_vars

\* institute "A" was just invalidated: pairs given for it are gone, while the
\* other institute still holds a pair
C25_Witness ==
  /\ ret.op = "invalidate_cache"
  /\ ret.institute_id = <<"A">>
  /\ \E pair \in known.ever \ known.since : pair[1] = <<"A">>
  /\ \E f \in Hashes : is_processed(version_cache, <<>>, f)

\* ------------------------------------------------------------------------
\* Further properties of the DocumentProcessor
\* ------------------------------------------------------------------------
\* C26: a process_file call for a path that does not exist raises
\* FileNotFoundError and leaves the registry and the sink as they were: no
\* version is assigned and write_results is not called.
C26_MissingFileNoEffect ==
  [][(ret'.op = "process_file" /\ ~ret'.file.exists) =>
       /\ ret'.raised = "FileNotFoundError"
       /\ version_cache' = version_cache
       /\ stored' = stored
       /\ ~handed'.called]_vars

\* the call was made on a processor that knows nothing of the institute, and
\* afterwards it still does not
C26_Witness ==
  /\ ret.op = "process_file"
  /\ ~ret.file.exists
  /\ ret.raised = "FileNotFoundError"
  /\ ret.institute_id \notin DOMAIN version_cache
  /\ stored = {}

\* ------------------------------------------------------------------------
\* Further properties of ORSAPipeline.process_documents
\* ------------------------------------------------------------------------
\* C27: the counters of a pipeline always satisfy checks_run = files_processed
\* times the number of registered checks (skipped and failed documents add no
\* checks) and checks_passed + checks_failed = checks_run; the summary returned
\* carries them as total_checks, checks_passed <= total_checks and checks_failed,
\* with pass_rate checks_passed / total_checks, and 0 when total_checks = 0.
C27_SummaryArithmetic ==
  /\ processing_stats.checks_run =
        processing_stats.files_processed * Len(get_all_checks)
  /\ processing_stats.checks_passed + processing_stats.checks_failed =
        processing_stats.checks_run
  /\ (ret.op = "pipeline.process_documents" /\ ret.raised = "") =>
        /\ ret.value.checks_passed + ret.value.checks_failed = ret.value.total_checks
        /\ ret.value.total_checks = ret.value.files_processed * Len(get_all_checks)
        /\ ret.value.checks_passed <= ret.value.total_checks
        /\ ret.value.total_checks = 0 => ret.value.pass_rate = <<0, 1>>
        /\ ret.value.total_checks > 0 =>
              ret.value.pass_rate = <<ret.value.checks_passed, ret.value.total_checks>>

\* a summary over two processed documents and a failed one, with checks that
\* passed and checks that did not
C27_Witness ==
  /\ ret.op = "pipeline.process_documents"
  /\ ret.raised = ""
  /\ ret.value.files_processed = 2
  /\ ret.value.files_failed = 1
  /\ ret.value.checks_passed > 0
  /\ ret.value.checks_failed > 0

\* a summary of a call in which nothing was processed
C27_NoChecks ==
  /\ ret.op = "pipeline.process_documents"
  /\ ret.raised = ""
  /\ ret.value.files_skipped + ret.value.files_failed > 0
  /\ ret.value.total_checks = 0
  /\ ret.value.pass_rate = <<0, 1>>

\* C28: the query operations should_process_file, is_processed,
\* get_latest_version, get_cache_status and get_cache_statistics leave the
\* registry and the sink as they were; an unforced should_process_file that
\* answers "new" for a content leaves that content unknown to the registry.
C28_QueriesChangeNothing ==
  [][ret'.op \in QueryOps =>
       /\ version_cache' = version_cache
       /\ stored' = stored
       /\ (/\ ret'.op = "should_process_file"
           /\ ret'.raised = ""
           /\ ret'.value[2] = <<"New file hash">>)
          => ~is_processed(version_cache', ret'.institute_id,
                           Sha256(ret'.file.content))]_vars

\* should_process_file was asked about a content new to an institute of which
\* the registry holds another fingerprint, and the sink has rows
C28_Witness ==
  /\ ret.op = "should_process_file"
  /\ ret.raised = ""
  /\ ret.value[2] = <<"New file hash">>
  /\ ret.institute_id \in DOMAIN version_cache
  /\ version_cache[ret.institute_id] # EmptyDict
  /\ stored # {}

\* C29: the counters of a pipeline are never reset: the summary a
\* process_documents call returns counts the documents and checks of all calls
\* made on the pipeline so far, and no counter ever decreases during the life
\* of the pipeline.
C29_CountersCumulative ==
  [][/\ (ret'.op = "pipeline.process_documents" /\ ret'.raised = "") =>
          /\ ret'.value.files_processed = tally'.processed
          /\ ret'.value.files_skipped = tally'.skipped
          /\ ret'.value.files_failed = tally'.failed
          /\ ret'.value.total_checks = tally'.checks
          /\ ret'.value.checks_passed = tally'.passed
          /\ ret'.value.checks_failed = tally'.checks - tally'.passed
     /\ ret'.op # "init" =>
          /\ processing_stats'.files_processed >= processing_stats.files_processed
          /\ processing_stats'.files_skipped >= processing_stats.files_skipped
          /\ processing_stats'.files_failed >= processing_stats.files_failed
          /\ processing_stats'.checks_run >= processing_stats.checks_run
          /\ processing_stats'.checks_passed >= processing_stats.checks_passed
          /\ processing_stats'.checks_failed >= processing_stats.checks_failed]_vars

\* the second call of a pipeline has returned, and each of the two calls
\* processed a document
C29_Witness ==
  /\ ret.op = "pipeline.process_documents"
  /\ ret.raised = ""
  /\ batch.calls = 2
  /\ ret.value.files_processed = 2
  /\ ret.value.total_checks = 2 * NumChecks

====
